---- MODULE Spec2Model ----
(***************************************************************************)
(* A model of ckks/bootCheby.py: class Chebyshev.                          *)
(*                                                                         *)
(* Numbers.  The program computes in floating point.  The model computes   *)
(* exactly:                                                                *)
(*   - abscissas (a, b, x, the nodes) and the values of func are integers  *)
(*     counting units of 1/Scale;                                          *)
(*   - everything derived by division or by 0.5 (y, d, dd, the entries of  *)
(*     self.c, the value eval returns) is a rational <<num, den>> in       *)
(*     lowest terms with den > 0;                                          *)
(*   - cos is a fixed-point approximation (CosFix), exact at 0, pi/3,      *)
(*     pi/2, 2pi/3 and pi and within 0.002 elsewhere.                      *)
(* Indices are the program's 0-based indices; a sequence element with      *)
(* index i is stored at position i + 1.                                    *)
(***************************************************************************)
EXTENDS Integers, Sequences, FiniteSets

VARIABLES
    pc,        \* position of the constructor: idle, sample, dct, lagrange, ready, failed
    a, b,      \* self.a, self.b
    func,      \* self.func
    n,         \* the argument n of __init__
    bma, bpa,  \* the locals bma, bpa of __init__ (never read)
    nodes,     \* the local nodes of __init__
    f,         \* the local f of __init__ (the sampled values, built left to right)
    c,         \* self.c
    hasC,      \* whether the attribute self.c has been assigned
    err,       \* the exception that ended the constructor, or "none"
    calls,     \* the abscissas func has been invoked at, in order
    epc,       \* position of eval: idle, assert, normalize, loop, return
    x,         \* the argument x of eval
    y, d, dd,  \* the locals y, d, dd of eval (None when not yet assigned)
    j,         \* the index of the next coefficient the Clenshaw loop consumes
    consumed,  \* the indices the Clenshaw loop of the current call has consumed
    hist       \* the finished eval calls: <<[x, out]>>, out a rational or an error

vars == <<pc, a, b, func, n, bma, bpa, nodes, f, c, hasC, err, calls,
          epc, x, y, d, dd, j, consumed, hist>>

ctorVars == <<pc, a, b, func, n, bma, bpa, nodes, f, c, hasC, err, calls>>
evalLocals == <<x, y, d, dd, j, consumed>>

\* Python's None, and the value of a local that has not been assigned
None == <<>>

-----------------------------------------------------------------------------
(* Bounds of the model *)

\* eval calls made on one object
MaxEvals == 3
\* longest coefficient vector drawn for the Clenshaw check
MaxLen == 4

-----------------------------------------------------------------------------
(* Exact arithmetic *)

\* units per 1.0 of the fixed-point abscissas and function values
Scale == 10000
\* units per 1.0 of the cosines of the cosine sum
CosUnits == 100

Abs(v) == IF v < 0 THEN -v ELSE v

RECURSIVE GCD(_, _)
GCD(p, q) == IF q = 0 THEN p ELSE GCD(q, p % q)

\* p/q in lowest terms, q > 0
Reduce(p, q) ==
    LET g == GCD(Abs(p), q)
    IN  <<p \div g, q \div g>>

\* the rational p/q in lowest terms with a positive denominator, q # 0
Rat(p, q) == IF q < 0 THEN Reduce(-p, -q) ELSE Reduce(p, q)

RInt(v) == <<v, 1>>
RAdd(p, q) == Rat(p[1] * q[2] + q[1] * p[2], p[2] * q[2])
RSub(p, q) == Rat(p[1] * q[2] - q[1] * p[2], p[2] * q[2])
RMul(p, q) == Rat(p[1] * q[1], p[2] * q[2])
\* p / q, q # 0
RDiv(p, q) == Rat(p[1] * q[2], p[2] * q[1])
RZero == <<0, 1>>
ROne == <<1, 1>>
RHalf == <<1, 2>>

\* cos(pi * m / D) in units of 1/S, m >= 0, D > 0 (math.cos)
CosFix(m, D, S) ==
    LET r0 == m % (2 * D)
        r == IF r0 > D THEN 2 * D - r0 ELSE r0
        q == D - r
    IN  IF 2 * r <= D
        THEN (S * (D * D - 4 * r * r)) \div (D * D + r * r)
        ELSE -((S * (D * D - 4 * q * q)) \div (D * D + q * q))

-----------------------------------------------------------------------------
(* The node generator: __init__, lines 26-32 *)

K == 9
deg == <<3, 3, 3, 4, 5, 4, 3, 3, 3>>
\* e = 0.01
e == <<1, 100>>

\* i - (K>>1) + e * cos(((j - 0.5) / deg[i]) * pi)
Node(i, jj) ==
    (i - (K \div 2)) * Scale
        + CosFix(2 * jj - 1, 2 * deg[i + 1], (Scale * e[1]) \div e[2])

\* for j in range(1, deg[i]+1): nodes += [...], the nodes one i adds
ClusterNodes(i) == [jj \in 1..deg[i + 1] |-> Node(i, jj)]

\* for i in range(K): ..., the nodes added from i on
RECURSIVE GenNodes(_)
GenNodes(i) ==
    IF i >= K THEN <<>> ELSE ClusterNodes(i) \o GenNodes(i + 1)

-----------------------------------------------------------------------------
(* The function capability.  func is any callable; the model draws it from *)
(* the identity, two constant functions and a step function, each         *)
(* optionally partial: it raises at every abscissa >= raiseFrom.          *)

Total == 10 * Scale

Func(kind, v, raiseFrom) == [kind |-> kind, v |-> v, raiseFrom |-> raiseFrom]

Funcs ==
    { Func(kv[1], kv[2], r) :
        kv \in { <<"ident", 0>>, <<"const", Node(0, 1)>>,
                 <<"const", Node(K - 1, deg[K])>>, <<"step", Node(K - 1, deg[K])>> },
        r \in {-4 * Scale, 0, 4 * Scale, Total} }

\* func(xx) raises
Raises(fn, xx) == xx >= fn.raiseFrom

\* the value func(xx) returns
Value(fn, xx) ==
    CASE fn.kind = "ident" -> xx
      [] fn.kind = "const" -> fn.v
      [] fn.kind = "step"  -> IF xx < 0 THEN xx ELSE fn.v

-----------------------------------------------------------------------------
(* The coefficient builder: __init__, lines 36-42, and Lagrange_polynomial *)

\* sum([f[k] * cos(pi * j * (k + 0.5) / n) for k in range(n)]) restricted to
\* the terms k = lo .. hi, in units of 1/(Scale * CosUnits); the integer
\* terms are added pairwise
RECURSIVE CosSum(_, _, _, _, _)
CosSum(fs, jj, nn, lo, hi) ==
    IF lo > hi THEN 0
    ELSE IF lo = hi
         THEN fs[lo + 1] * CosFix(jj * (2 * lo + 1), 2 * nn, CosUnits)
         ELSE LET mid == (lo + hi) \div 2
              IN  CosSum(fs, jj, nn, lo, mid) + CosSum(fs, jj, nn, mid + 1, hi)

\* [fac * sum([...]) for j in range(n)] with fac = 2.0 / n, n # 0
CosineCoefficients(fs, nn) ==
    [jj \in 1..(IF nn > 0 THEN nn ELSE 0) |->
        RMul(Rat(2, nn), Rat(CosSum(fs, jj - 1, nn, 0, nn - 1), Scale * CosUnits))]

\* (x - points[k]) / (points[i] - points[k]), points[i] # points[k]
Factor(xv, i, points, k) ==
    Rat(xv - points[k + 1], points[i + 1] - points[k + 1])

NotOne(q) == q # ROne

\* The product p after multiplying 1 by the factors qs in order, kept as the
\* factors that are not 1, or as <<0>> when a factor is 0.
PMul(qs) ==
    IF \E k \in 1..Len(qs) : qs[k] = RZero THEN <<RZero>>
    ELSE SelectSeq(qs, NotOne)

\* the value of the product p
RECURSIVE ProdValue(_)
ProdValue(p) ==
    IF p = <<>> THEN ROne ELSE RMul(p[1], ProdValue(Tail(p)))

\* the loop without the test k != i
LagrangeLoop_noSkip(xv, i, points) ==
    IF \E k \in 0..(Len(points) - 1) : points[i + 1] = points[k + 1]
    THEN [ok |-> FALSE, p |-> <<>>]
    ELSE [ok |-> TRUE,
          p |-> PMul([k \in 1..Len(points) |-> Factor(xv, i, points, k - 1)])]

\* for k in range(len(points)): if k != i: p *= (x - points[k])/(points[i] - points[k])
\* [ok, p]: ok is FALSE when a division raised ZeroDivisionError
LagrangeLoop(xv, i, points) ==
    IF \E k \in 0..(Len(points) - 1) : k # i /\ points[i + 1] = points[k + 1]
    THEN [ok |-> FALSE, p |-> <<>>]
    ELSE [ok |-> TRUE,
          p |-> PMul([k \in 1..Len(points) |->
                        IF k - 1 # i THEN Factor(xv, i, points, k - 1) ELSE ROne])]

\* Lagrange_polynomial(x, i, points): [ok, val]; ok is FALSE when a division
\* by zero was raised
Lagrange_polynomial(xv, i, points) ==
    LET r == LagrangeLoop(xv, i, points)
    IN  IF r.ok THEN [ok |-> TRUE, val |-> ProdValue(r.p)]
        ELSE [ok |-> FALSE, val |-> None]

-----------------------------------------------------------------------------
(* Chebyshev.__init__(a, b, n, func) *)

Intervals ==
    { <<-4 * Scale, 4 * Scale>>, <<0, Scale>>, <<Scale, Scale>>, <<2 * Scale, Scale>> }

Degrees == {-1, 0, 10, 27, 31, 32}

Init ==
    /\ pc = "idle"
    /\ a = None /\ b = None /\ func = None /\ n = None
    /\ bma = None /\ bpa = None
    /\ nodes = <<>> /\ f = <<>>
    /\ c = <<>> /\ hasC = FALSE
    /\ err = "none"
    /\ calls = <<>>
    /\ epc = "idle"
    /\ x = None /\ y = None /\ d = None /\ dd = None /\ j = None
    /\ consumed = <<>>
    /\ hist = <<>>

\* the constructor raises exception ex: no object results
Fail(ex) ==
    /\ pc' = "failed"
    /\ err' = ex

\* lines 19-32: the attributes a, b, func, the locals bma, bpa and the nodes
Construct(lo, hi, nn, fn) ==
    /\ pc = "idle"
    /\ a' = lo /\ b' = hi /\ func' = fn /\ n' = nn
    /\ bma' = Rat(hi - lo, 2)
    /\ bpa' = Rat(hi + lo, 2)
    /\ nodes' = GenNodes(0)
    /\ pc' = "sample"
    /\ UNCHANGED <<f, c, hasC, err, calls, epc, evalLocals, hist>>

\* the sampling with an exception of func caught and replaced by 0
SampleCall_swallow ==
    /\ pc = "sample"
    /\ Len(f) < n
    /\ IF Len(f) >= Len(nodes)
       THEN /\ Fail("IndexError")
            /\ UNCHANGED <<f, calls>>
       ELSE LET xx == nodes[Len(f) + 1]
            IN  /\ calls' = Append(calls, xx)
                /\ f' = Append(f, IF Raises(func, xx) THEN 0 ELSE Value(func, xx))
                /\ UNCHANGED <<pc, err>>
    /\ UNCHANGED <<a, b, func, n, bma, bpa, nodes, c, hasC, epc, evalLocals, hist>>

\* line 36, one iteration of f = [func(nodes[k]) for k in range(n)]
SampleCall ==
    /\ pc = "sample"
    /\ Len(f) < n
    /\ IF Len(f) >= Len(nodes)
       THEN /\ Fail("IndexError")
            /\ UNCHANGED <<f, calls>>
       ELSE LET xx == nodes[Len(f) + 1]
            IN  /\ calls' = Append(calls, xx)
                /\ IF Raises(func, xx)
                   THEN /\ Fail("FunctionEvaluationError")
                        /\ UNCHANGED f
                   ELSE /\ f' = Append(f, Value(func, xx))
                        /\ UNCHANGED <<pc, err>>
    /\ UNCHANGED <<a, b, func, n, bma, bpa, nodes, c, hasC, epc, evalLocals, hist>>

\* line 36, range(n) is exhausted
SampleDone ==
    /\ pc = "sample"
    /\ Len(f) >= n
    /\ pc' = "dct"
    /\ UNCHANGED <<a, b, func, n, bma, bpa, nodes, f, c, hasC, err, calls,
                   epc, evalLocals, hist>>

\* lines 37-38: fac = 2.0 / n; self.c = [fac * sum(...) for j in range(n)]
CosineSum ==
    /\ pc = "dct"
    /\ IF n = 0
       THEN /\ Fail("ZeroDivisionError")
            /\ UNCHANGED <<c, hasC>>
       ELSE /\ c' = CosineCoefficients(f, n)
            /\ hasC' = TRUE
            /\ pc' = "lagrange"
            /\ UNCHANGED err
    /\ UNCHANGED <<a, b, func, n, bma, bpa, nodes, f, calls, epc, evalLocals, hist>>

Min(p, q) == IF p < q THEN p ELSE q

\* line 42 iterating over range(len(f)) instead of range(len(nodes))
LagrangeCoefficients_overF ==
    /\ pc = "lagrange"
    /\ LET m == Min(Len(f), Len(nodes))
           rs == [i \in 1..m |-> Lagrange_polynomial(f[i], i - 1, nodes)]
       IN  IF \E i \in 1..m : ~rs[i].ok
           THEN /\ Fail("ZeroDivisionError")
                /\ UNCHANGED c
           ELSE /\ c' = [i \in 1..m |-> rs[i].val]
                /\ pc' = "ready"
                /\ UNCHANGED err
    /\ UNCHANGED <<a, b, func, n, bma, bpa, nodes, f, hasC, calls, epc, evalLocals, hist>>

\* line 42 left out, as line 40 is: the cosine sums stay in self.c
LagrangeCoefficients_keepCosine ==
    /\ pc = "lagrange"
    /\ IF Len(f) < Len(nodes)
       THEN Fail("IndexError")
       ELSE /\ pc' = "ready"
            /\ UNCHANGED err
    /\ UNCHANGED <<a, b, func, n, bma, bpa, nodes, f, c, hasC, calls, epc, evalLocals, hist>>

\* line 42: self.c = [self.Lagrange_polynomial(f[i], i, nodes) for i in range(len(nodes))]
LagrangeCoefficients ==
    /\ pc = "lagrange"
    /\ LET m == Min(Len(f), Len(nodes))
           rs == [i \in 1..m |-> Lagrange_polynomial(f[i], i - 1, nodes)]
       IN  IF \E i \in 1..m : ~rs[i].ok
           THEN /\ Fail("ZeroDivisionError")
                /\ UNCHANGED c
           ELSE IF Len(f) < Len(nodes)
           THEN /\ Fail("IndexError")
                /\ UNCHANGED c
           ELSE /\ c' = [i \in 1..m |-> rs[i].val]
                /\ pc' = "ready"
                /\ UNCHANGED err
    /\ UNCHANGED <<a, b, func, n, bma, bpa, nodes, f, hasC, calls, epc, evalLocals, hist>>

-----------------------------------------------------------------------------
(* Chebyshev.eval(x) *)

\* the arguments eval is called with: both bounds, one unit outside each, and
\* the point three quarters of the way from lo to hi
EvalInputs(lo, hi) ==
    {lo - 1, lo, lo + (3 * (hi - lo)) \div 4, hi, hi + 1}

\* a finished call
Outcome(xx, ex, val) == [x |-> xx, err |-> ex, val |-> val]

\* a < x < b
InDomain_strict(lo, hi, xx) == lo < xx /\ xx < hi

\* a <= x <= b
InDomain(lo, hi, xx) == lo <= xx /\ xx <= hi

\* eval(x) is called on the constructed object
EvalCall ==
    /\ pc = "ready"
    /\ epc = "idle"
    /\ Len(hist) < MaxEvals
    /\ \E xx \in EvalInputs(a, b) : x' = xx
    /\ y' = None /\ d' = None /\ dd' = None /\ j' = None
    /\ consumed' = <<>>
    /\ epc' = "assert"
    /\ UNCHANGED <<ctorVars, hist>>

\* lines 70-71: assert(a <= x <= b)
EvalAssert ==
    /\ epc = "assert"
    /\ IF InDomain(a, b, x)
       THEN /\ epc' = "normalize"
            /\ UNCHANGED hist
       ELSE /\ epc' = "idle"
            /\ hist' = Append(hist, Outcome(x, "AssertionError", None))
    /\ UNCHANGED <<ctorVars, evalLocals>>

\* lines 72-74: y, y2 and the first step (d, dd) = (self.c[-1], 0)
EvalNormalize ==
    /\ epc = "normalize"
    /\ IF b = a
       THEN /\ epc' = "idle"
            /\ hist' = Append(hist, Outcome(x, "ZeroDivisionError", None))
            /\ UNCHANGED <<y, d, dd, j>>
       ELSE IF Len(c) = 0
       THEN /\ epc' = "idle"
            /\ y' = RMul(RInt(2 * x - a - b), RDiv(ROne, RInt(b - a)))
            /\ hist' = Append(hist, Outcome(x, "IndexError", None))
            /\ UNCHANGED <<d, dd, j>>
       ELSE /\ y' = RMul(RInt(2 * x - a - b), RDiv(ROne, RInt(b - a)))
            /\ d' = c[Len(c)]
            /\ dd' = RZero
            /\ j' = Len(c) - 2
            /\ epc' = "loop"
            /\ UNCHANGED hist
    /\ UNCHANGED <<ctorVars, x, consumed>>

\* the loop body as two assignments in sequence: d = y2 * d - dd + cj; dd = d
EvalLoop_sequential ==
    /\ epc = "loop"
    /\ j >= 1
    /\ d' = RAdd(RSub(RMul(RMul(RInt(2), y), d), dd), c[j + 1])
    /\ dd' = d'
    /\ j' = j - 1
    /\ consumed' = Append(consumed, j)
    /\ UNCHANGED <<ctorVars, epc, x, y, hist>>

\* lines 75-76: for cj in self.c[-2:0:-1]: (d, dd) = (y2 * d - dd + cj, d)
EvalLoop ==
    /\ epc = "loop"
    /\ j >= 1
    /\ d' = RAdd(RSub(RMul(RMul(RInt(2), y), d), dd), c[j + 1])
    /\ dd' = d
    /\ j' = j - 1
    /\ consumed' = Append(consumed, j)
    /\ UNCHANGED <<ctorVars, epc, x, y, hist>>

\* line 77 keeping the value returned in self.c[0]
EvalReturn_cache ==
    /\ epc = "loop"
    /\ j < 1
    /\ LET r == RAdd(RSub(RMul(y, d), dd), RMul(RHalf, c[1]))
       IN  /\ hist' = Append(hist, Outcome(x, "none", r))
           /\ c' = [c EXCEPT ![1] = r]
    /\ epc' = "idle"
    /\ UNCHANGED <<pc, a, b, func, n, bma, bpa, nodes, f, hasC, err, calls, evalLocals>>

\* line 77 adding a correction term self.func(x)
EvalReturn_resample ==
    /\ epc = "loop"
    /\ j < 1
    /\ calls' = Append(calls, x)
    /\ hist' = Append(hist, Outcome(x, "none",
                        RAdd(RSub(RMul(y, d), dd), RMul(RHalf, c[1]))))
    /\ epc' = "idle"
    /\ UNCHANGED <<pc, a, b, func, n, bma, bpa, nodes, f, c, hasC, err, evalLocals>>

\* line 77: return y * d - dd + 0.5 * self.c[0]
EvalReturn ==
    /\ epc = "loop"
    /\ j < 1
    /\ hist' = Append(hist, Outcome(x, "none",
                        RAdd(RSub(RMul(y, d), dd), RMul(RHalf, c[1]))))
    /\ epc' = "idle"
    /\ UNCHANGED <<ctorVars, evalLocals>>

NextEval ==
    \/ EvalCall
    \/ EvalAssert
    \/ EvalNormalize
    \/ EvalLoop
    \/ EvalReturn

Next ==
    \/ \E iv \in Intervals, nn \in Degrees, fn \in Funcs :
            Construct(iv[1], iv[2], nn, fn)
    \/ SampleCall
    \/ SampleDone
    \/ CosineSum
    \/ LagrangeCoefficients
    \/ NextEval

Spec == Init /\ [][Next]_vars

-----------------------------------------------------------------------------
(* eval as a function of the coefficient vector: the object is given with  *)
(* an arbitrary coefficient vector and eval is applied to it.              *)

ClenshawIntervals == { <<0, 3>>, <<-2, 2>> }

CoefValues == { <<-1, 1>>, <<0, 1>>, <<3, 2>> }

CoefVectors == UNION { [1..L -> CoefValues] : L \in 1..MaxLen }

InitClenshaw ==
    /\ pc = "ready"
    /\ \E iv \in ClenshawIntervals :
         /\ a = iv[1] /\ b = iv[2]
         /\ bma = Rat(iv[2] - iv[1], 2)
         /\ bpa = Rat(iv[2] + iv[1], 2)
    /\ func = Func("ident", 0, Total)
    /\ c \in CoefVectors
    /\ n = Len(c)
    /\ hasC = TRUE
    /\ nodes = <<>> /\ f = <<>>
    /\ err = "none"
    /\ calls = <<>>
    /\ epc = "idle"
    /\ x = None /\ y = None /\ d = None /\ dd = None /\ j = None
    /\ consumed = <<>>
    /\ hist = <<>>

SpecClenshaw == InitClenshaw /\ [][NextEval]_vars

-----------------------------------------------------------------------------
(* Definitions used to state the properties *)

\* the sum of the cluster sizes
RECURSIVE SumTo(_, _)
SumTo(s, k) == IF k = 0 THEN 0 ELSE s[k] + SumTo(s, k - 1)
SumDeg == SumTo(deg, Len(deg))

\* func raises at none of the first m nodes
TotalOn(m) == \A k \in 1..Min(m, Len(nodes)) : ~Raises(func, nodes[k])

Last(s) == s[Len(s)]

\* <<T_0(yy), ..., T_{m-1}(yy)>>, m >= 1: T_0 = 1, T_1 = yy, T_{k+1} = 2 yy T_k - T_{k-1}
RECURSIVE ChebT(_, _)
ChebT(yy, m) ==
    IF m = 1 THEN <<ROne>>
    ELSE IF m = 2 THEN <<ROne, yy>>
    ELSE LET s == ChebT(yy, m - 1)
         IN  Append(s, RSub(RMul(RMul(RInt(2), yy), s[m - 1]), s[m - 2]))

\* s[lo] + ... + s[hi]
RECURSIVE RSum(_, _, _)
RSum(s, lo, hi) ==
    IF lo > hi THEN RZero
    ELSE IF lo = hi THEN s[lo]
    ELSE LET mid == (lo + hi) \div 2
         IN  RAdd(RSum(s, lo, mid), RSum(s, mid + 1, hi))

\* sum_{k = 0 .. Len(cs)-1} cs[k] * T_k, given t = <<T_0, ..., T_{Len(cs)-1}>>
ChebSeries(cs, t) ==
    RSum([k \in 1..Len(cs) |-> RMul(cs[k], t[k])], 1, Len(cs))

\* <<from, from - 1, ..., 1>>
Descending(from) == [i \in 1..(IF from >= 1 THEN from ELSE 0) |-> from + 1 - i]

\* the product over the indices in ks of (fi - nodes[k]) / (ni - nodes[k]),
\* 0 as soon as one numerator is 0
RECURSIVE ProductOver(_, _, _)
ProductOver(ks, fi, ni) ==
    IF ks = {} THEN ROne
    ELSE LET k == CHOOSE k \in ks : TRUE
         IN  RMul(Rat(fi - nodes[k + 1], ni - nodes[k + 1]),
                  ProductOver(ks \ {k}, fi, ni))

\* product over k # i of (func(node_i) - node_k) / (node_i - node_k)
LagrangeAt(i) ==
    LET fi == Value(func, nodes[i + 1])
        ni == nodes[i + 1]
        others == (0..(Len(nodes) - 1)) \ {i}
    IN  IF \E k \in others : fi = nodes[k + 1] THEN RZero
        ELSE ProductOver({k \in others : fi # ni}, fi, ni)

\* calls with the same argument ended the same way
SameArgSameResult(h) ==
    \A i, k \in 1..Len(h) : h[i].x = h[k].x => h[i] = h[k]

-----------------------------------------------------------------------------
(* Properties *)

\* C1: with lower < upper, func total on the nodes and n equal to the sum of
\* the cluster sizes (31), the constructor does not fail, and a constructed
\* object holds a coefficient vector whose length is n and the number of nodes.
C1_ConstructLength ==
    /\ pc = "ready" => hasC /\ Len(c) = n /\ Len(c) = Len(nodes)
    /\ pc = "failed" => ~(a < b /\ n = SumDeg /\ TotalOn(n))

\* the demonstration call's arguments a = -4, b = 4, n = 31 have constructed an object
C1_Witness ==
    /\ pc = "ready" /\ a = -4 * Scale /\ b = 4 * Scale /\ n = 31
    /\ Len(c) = 31 /\ TotalOn(n)

\* C2 as stated: the sum of the cluster sizes is 27 and every other degree
\* fails, so an object is constructed for no degree but 27.
C2_Original == pc = "ready" => n = 27

\* C2 amended: the sum of the cluster sizes is 31; for every other degree no
\* object results, and when func is total on the sampled nodes the constructor
\* ends with ZeroDivisionError for n = 0 and with IndexError otherwise.
C2_DegreeMismatch ==
    /\ SumDeg = 31
    /\ pc = "ready" => n = 31
    /\ (pc # "idle" /\ n # 31) => epc = "idle" /\ hist = <<>>
    /\ (pc = "failed" /\ n # 31 /\ TotalOn(n)) =>
            err = (IF n = 0 THEN "ZeroDivisionError" ELSE "IndexError")

\* Chebyshev(0, 1, 10, f) has failed with IndexError
C2_Witness ==
    /\ pc = "failed" /\ a = 0 /\ b = Scale /\ n = 10
    /\ TotalOn(n) /\ err = "IndexError"

\* C3 as stated: the constructor fails when lower >= upper, so every
\* constructed object has lower < upper.
C3_Claim == pc = "ready" => a < b

\* C4: a finished eval(x) ended with the assertion error if x < a or x > b and
\* did not if a <= x <= b; and when it ended with the assertion error no local
\* had been computed and no coefficient consumed.
C4_DomainCheck ==
    /\ \A i \in 1..Len(hist) :
          /\ (hist[i].x < a \/ hist[i].x > b) => hist[i].err = "AssertionError"
          /\ (a <= hist[i].x /\ hist[i].x <= b) => hist[i].err # "AssertionError"
    /\ (epc = "assert"
          \/ (epc = "idle" /\ hist # <<>> /\ Last(hist).err = "AssertionError"))
       => y = None /\ d = None /\ dd = None /\ j = None /\ consumed = <<>>

\* eval(upper + 1 unit) failed and eval(lower), eval(upper) returned values
C4_Witness ==
    /\ Len(hist) = 3 /\ a < b
    /\ hist[1].x = b + 1 /\ hist[1].err = "AssertionError"
    /\ hist[2].x = a /\ hist[2].err = "none"
    /\ hist[3].x = b /\ hist[3].err = "none"

\* C5: once func has raised at a node the constructor has failed with that
\* error, self.c was never assigned (neither cosine sums nor anything else)
\* and eval has never run.
C5_FunctionError ==
    ((\E k \in 1..Len(calls) : Raises(func, calls[k])) \/ err = "FunctionEvaluationError")
    => /\ pc = "failed" /\ err = "FunctionEvaluationError"
       /\ ~hasC /\ c = <<>>
       /\ epc = "idle" /\ hist = <<>>
       /\ Raises(func, Last(calls))

\* func raised at its 14th node, after 13 values were sampled
C5_Witness ==
    /\ err = "FunctionEvaluationError" /\ Len(calls) = 14 /\ Len(f) = 13

\* C6: no step taken once the object is constructed changes a, b or self.c,
\* and all finished calls of eval with the same x have the same result.
C6_EvalPure ==
    [][pc = "ready" =>
         /\ pc' = "ready" /\ a' = a /\ b' = b /\ c' = c /\ hasC' = hasC
         /\ SameArgSameResult(hist')]_vars

\* eval(x), eval(x2), eval(x) with x # x2: the two eval(x) returned one value
C6_Witness ==
    /\ Len(hist) = 3 /\ hist[1].x = hist[3].x /\ hist[1].x # hist[2].x
    /\ hist[1].err = "none" /\ hist[2].err = "none"
    /\ hist[1].val = hist[3].val /\ hist[1].val # hist[2].val

\* C7: for a coefficient vector of length n >= 2, a call of eval that returns
\* has computed y = (2x - a - b)/(b - a), consumed the indices n-2, ..., 1 in
\* that order, once each, and returns sum_{k<n} c[k] T_k(y) - 0.5 c[0].
C7_Clenshaw ==
    (epc = "idle" /\ hist # <<>> /\ Last(hist).err = "none" /\ Len(c) >= 2)
    => /\ y = Rat(2 * x - a - b, b - a)
       /\ consumed = Descending(Len(c) - 2)
       /\ \A t \in {ChebT(y, Len(c))} :
             Last(hist).val = RSub(ChebSeries(c, t), RMul(RHalf, c[1]))

\* eval returned on a vector of length 4 with nonzero c[0] at y = 1/3
C7_Witness ==
    /\ epc = "idle" /\ hist # <<>> /\ Last(hist).err = "none"
    /\ Len(c) = 4 /\ c[1] # RZero /\ c[4] # RZero /\ y = <<1, 3>> /\ consumed = <<2, 1>>

\* C8: in a constructed object c[i] is the product over k # i of
\* (func(node_i) - node_k)/(node_i - node_k) for every index i; the cosine
\* sums have left no trace.
C8_LagrangeCoefficients ==
    pc = "ready" /\ nodes # <<>> =>
        /\ Len(c) = Len(nodes)
        /\ \A i \in 0..(Len(nodes) - 1) : c[i + 1] = LagrangeAt(i)

\* the step function: coefficients 1 where func(node) = node, 0 elsewhere
C8_Witness ==
    /\ pc = "ready" /\ func.kind = "step"
    /\ c[1] = ROne /\ c[14] = RZero /\ c[31] = ROne

\* C9 as stated: with lower < upper every abscissa passed to func lies in
\* [lower, upper].
C9_Claim ==
    \A k \in 1..Len(calls) : a < b => a <= calls[k] /\ calls[k] <= b

\* C10: func is invoked only by the sampling step of the constructor, at the
\* next node in node order, before any eval; a constructed object has had
\* func invoked once per node; eval runs only on a constructed object.
C10_FuncOnlyInConstruct ==
    [][/\ calls' # calls =>
            /\ pc = "sample" /\ epc = "idle" /\ hist = <<>>
            /\ calls' = Append(calls, nodes[Len(calls) + 1])
       /\ pc' = "ready" /\ nodes' # <<>> => calls' = nodes'
       /\ (epc' # "idle" \/ hist' # <<>>) => pc' = "ready"]_vars

\* three eval calls have finished on an object sampled at its 31 nodes
C10_Witness ==
    /\ pc = "ready" /\ Len(hist) = 3 /\ Len(calls) = 31 /\ calls = nodes
    /\ hist[1].err = "none" /\ hist[2].err = "AssertionError"

====
